---- MODULE Spec2Model ----
(***************************************************************************)
(* Model of src/weather_automation.py: the BuienradarClient pipeline       *)
(* (fetch_weather_data, process_data, setup_database, store_data,          *)
(* run_collection_cycle) and the scheduling loop of main().                *)
(*                                                                         *)
(* A pandas DataFrame is a sequence of rows, None is a frame with          *)
(* isNone = TRUE.  An SQLite table is a bag of rows; the schema is the set *)
(* of tables, constraints and indexes that exist in the database file.     *)
(***************************************************************************)
EXTENDS Bags, FiniteSets, Integers, Sequences, TLC

----------------------------------------------------------------------------
(* Bounds of the model *)

\* longest list of station records in one API response
MaxRecords == 2
\* number of loop iterations main() is followed for
MaxCycles == 2
\* number of direct method calls the harness specification makes
MaxCalls == 3

----------------------------------------------------------------------------
(* Values *)

\* a key that a record's dict does not have
Missing == "<missing>"
\* what pandas puts in a cell whose record lacks the column's key
NaN == "nan"

\* one element of data['actual']['stationmeasurements'].  temperature stands
\* for the eight sensor columns, stationname for the four station attributes.
Record(stationid, timestamp, temperature, stationname) ==
    [stationid |-> stationid, timestamp |-> timestamp,
     temperature |-> temperature, stationname |-> stationname]

\* The records a response is made of: an observation, the same observation
\* with another reading, with another station name and without its reading,
\* a later observation of the station, and one of a second station.
RawRecords ==
    {Record("A", "2", "5.2", "n1"),
     Record("A", "2", "6.1", "n1"),
     Record("A", "2", "5.2", "n2"),
     Record("A", "2", Missing, "n1"),
     Record("A", "1_2", "5.2", "n1"),
     Record("A_1", "2", "5.2", "n1")}

SeqsUpTo(S, n) == UNION {[1..k -> S] : k \in 0..n}

RawInputs == SeqsUpTo(RawRecords, MaxRecords)

Range(f) == {f[i] : i \in DOMAIN f}

NoneFrame == [isNone |-> TRUE, rows |-> <<>>]
Frame(rows) == [isNone |-> FALSE, rows |-> rows]

\* Python truthiness of a list-or-None
Truthy(x) == ~x.isNone /\ x.rows # <<>>

\* DataFrame.empty
empty(df) == df.rows = <<>>

len(df) == Len(df.rows)

----------------------------------------------------------------------------
(* fetch_weather_data *)

\* what the HTTP call can come back with
ResponseKinds == {"ok", "transport", "status", "malformed", "shape"}

Responses ==
    {[kind |-> k, records |-> <<>>] : k \in ResponseKinds \ {"ok"}}
    \cup {[kind |-> "ok", records |-> r] : r \in RawInputs}

\* requests.get / raise_for_status raise RequestException, response.json()
\* raises a ValueError, data['actual'][...] raises KeyError: all are caught
\* and turned into None.
fetch_weather_data(response) ==
    IF response.kind = "ok"
    THEN [value |-> Frame(response.records), log |-> {"info:fetched"}]
    ELSE [value |-> NoneFrame,
          log |-> {CASE response.kind \in {"transport", "status"} -> "error:fetching"
                     [] response.kind = "shape" -> "error:structure"
                     [] OTHER -> "error:unexpected"}]

----------------------------------------------------------------------------
(* process_data *)

measurement_columns == {"stationid", "timestamp", "temperature"}
station_columns == {"stationid", "stationname"}

\* Variant: a column exists only if every record has its key
columns_of_all(raw) ==
    {c \in {"stationid", "timestamp", "temperature", "stationname"} :
        \A i \in DOMAIN raw : raw[i][c] # Missing}

\* pd.DataFrame(list of dicts): the columns are the union of the keys
columns(raw) ==
    {c \in {"stationid", "timestamp", "temperature", "stationname"} :
        \E i \in DOMAIN raw : raw[i][c] # Missing}

\* a cell of the DataFrame: NaN where the record has no such key
cell(rec, c) == IF rec[c] = Missing THEN NaN ELSE rec[c]

\* DataFrame.drop_duplicates(): keeps the first of equal rows, in order
RECURSIVE drop_duplicates(_)
drop_duplicates(rows) ==
    IF rows = <<>> THEN <<>>
    ELSE LET init == drop_duplicates(SubSeq(rows, 1, Len(rows) - 1))
             r == rows[Len(rows)]
         IN  IF r \in Range(init) THEN init ELSE Append(init, r)

\* Variant: the key is made of the station's id alone
measurementid_of_station(stationid, timestamp) == stationid \o "_"

\* astype(str) + '_' + astype(str)
measurementid(stationid, timestamp) == stationid \o "_" \o timestamp

project_measurements(raw) ==
    [i \in DOMAIN raw |->
        [stationid |-> cell(raw[i], "stationid"),
         timestamp |-> cell(raw[i], "timestamp"),
         temperature |-> cell(raw[i], "temperature")]]

project_stations(raw) ==
    [i \in DOMAIN raw |->
        [stationid |-> cell(raw[i], "stationid"),
         stationname |-> cell(raw[i], "stationname")]]

add_measurementid(rows) ==
    [i \in DOMAIN rows |->
        [stationid |-> rows[i].stationid,
         timestamp |-> rows[i].timestamp,
         temperature |-> rows[i].temperature,
         measurementid |-> measurementid(rows[i].stationid, rows[i].timestamp)]]

\* raw_data is a list-or-None frame; the result is the pair of DataFrames
process_data(raw_data) ==
    IF ~Truthy(raw_data)
    THEN [measurements |-> NoneFrame, stations |-> NoneFrame, log |-> {}]
    ELSE IF ~(measurement_columns \subseteq columns(raw_data.rows))
            \/ ~(station_columns \subseteq columns(raw_data.rows))
    THEN \* KeyError from data[[...]], caught by except Exception
         [measurements |-> NoneFrame, stations |-> NoneFrame,
          log |-> {"error:processing"}]
    ELSE [measurements |->
              Frame(add_measurementid(
                  drop_duplicates(project_measurements(raw_data.rows)))),
          stations |-> Frame(drop_duplicates(project_stations(raw_data.rows))),
          log |-> {"info:processed"}]

\* the DataFrames process_data can return for a response
ProcessedInputs ==
    {process_data(Frame(raw)) : raw \in RawInputs}

StationFrames ==
    {p.stations : p \in {q \in ProcessedInputs : ~q.stations.isNone}}

MeasurementFrames ==
    {p.measurements : p \in {q \in ProcessedInputs : ~q.measurements.isNone}}

----------------------------------------------------------------------------
(* The SQLite database file *)

\* DataFrame rows as table rows
SeqToBag(rows) ==
    [r \in Range(rows) |-> Cardinality({i \in DOMAIN rows : rows[i] = r})]

stations_objects == {"stations", "stations.pk"}

\* a database file that holds no table yet
EmptyDatabase == [schema |-> {}, stations |-> EmptyBag, measurements |-> EmptyBag]

\* an sqlite3 call that fails for a reason of the environment (file locked by
\* another reader, I/O error, unwritable path), by the call it hits
SetupFaults == {"none", "connect"}
StoreFaults == {"none", "connect", "stations", "measurements"}

\* two rows of the table share (stationid, timestamp)
duplicate_pairs(table) ==
    \E r \in BagToSet(table) :
        \/ CopiesIn(r, table) > 1
        \/ \E q \in BagToSet(table) :
              q # r /\ q.stationid = r.stationid /\ q.timestamp = r.timestamp

\* CREATE TABLE IF NOT EXISTS stations (stationid TEXT PRIMARY KEY, ...)
create_stations(schema) ==
    IF "stations" \in schema THEN schema ELSE schema \cup stations_objects

\* CREATE TABLE IF NOT EXISTS measurements (measurementid TEXT PRIMARY KEY,
\* stationid TEXT NOT NULL, timestamp TEXT NOT NULL, ..., FOREIGN KEY ...)
create_measurements(schema) ==
    IF "measurements" \in schema THEN schema
    ELSE schema \cup {"measurements", "measurements.pk", "measurements.notnull",
                      "measurements.fk"}

create_indexes(schema) ==
    schema \cup {"uq_measurements_stationid_timestamp",
                 "idx_measurements_stationid", "idx_measurements_timestamp"}

\* Variant: CREATE TABLE without IF NOT EXISTS, which fails on a table that
\* is there already
setup_database_plain_create(db, fault) ==
    IF fault = "connect" \/ "stations" \in db.schema
    THEN [db |-> db, log |-> {"error:setup"}]
    ELSE [db |-> [db EXCEPT !.schema =
                      create_indexes(create_measurements(create_stations(@)))],
          log |-> {"info:setup"}]

\* Each CREATE statement is committed as it is executed (the sqlite3 module
\* opens no transaction for DDL), so the tables made before a failing
\* CREATE UNIQUE INDEX stay.
setup_database(db, fault) ==
    IF fault = "connect"
    THEN [db |-> db, log |-> {"error:setup"}]
    ELSE LET tables == create_measurements(create_stations(db.schema))
         IN  IF "uq_measurements_stationid_timestamp" \notin tables
                /\ duplicate_pairs(db.measurements)
             THEN \* IntegrityError: the index cannot be built
                  [db |-> [db EXCEPT !.schema = tables], log |-> {"error:setup"}]
             ELSE [db |-> [db EXCEPT !.schema = create_indexes(tables)],
                   log |-> {"info:setup"}]

\* Variant: if_exists="append" for the stations too
to_sql_replace_appending(db, rows) ==
    [db EXCEPT !.schema = @ \cup {"stations"},
               !.stations = @ (+) SeqToBag(rows)]

\* Variant: the connection enforces foreign keys, so DROP TABLE stations
\* deletes the station rows first and ON DELETE CASCADE takes the
\* measurements with them
to_sql_replace_cascading(db, rows) ==
    [db EXCEPT !.schema = (@ \ stations_objects) \cup {"stations"},
               !.stations = SeqToBag(rows),
               !.measurements = EmptyBag]

\* stations.to_sql("stations", conn, if_exists="replace", index=False, dtype=...):
\* DROP TABLE stations, CREATE TABLE stations with the dtype columns and no
\* key, INSERT every row.  store_data's connection never sets
\* PRAGMA foreign_keys, so dropping the table deletes no measurement.
to_sql_replace(db, rows) ==
    [db EXCEPT !.schema = (@ \ stations_objects) \cup {"stations"},
               !.stations = SeqToBag(rows)]

\* row i of the batch cannot be inserted after rows 1..i-1
conflicts(db, rows, i) ==
    \/ /\ "measurements.pk" \in db.schema
       /\ \/ \E r \in BagToSet(db.measurements) :
                r.measurementid = rows[i].measurementid
          \/ \E j \in 1..(i - 1) : rows[j].measurementid = rows[i].measurementid
    \/ /\ "uq_measurements_stationid_timestamp" \in db.schema
       /\ \/ \E r \in BagToSet(db.measurements) :
                r.stationid = rows[i].stationid /\ r.timestamp = rows[i].timestamp
          \/ \E j \in 1..(i - 1) :
                rows[j].stationid = rows[i].stationid
                /\ rows[j].timestamp = rows[i].timestamp

\* Variant: the table has lost its keys, every row of the batch is inserted
to_sql_append_unchecked(db, rows) ==
    [db |-> [db EXCEPT !.schema = @ \cup {"measurements"},
                       !.measurements = @ (+) SeqToBag(rows)],
     raised |-> FALSE]

\* measurements.to_sql("measurements", conn, if_exists="append", index=False,
\* dtype=...): creates the table (columns only) if there is none, then a
\* plain INSERT of all rows in one transaction; an IntegrityError on any row
\* rolls the whole batch back and is raised to the caller.
to_sql_append(db, rows) ==
    LET db1 == [db EXCEPT !.schema = @ \cup {"measurements"}]
    IN  IF \E i \in DOMAIN rows : conflicts(db1, rows, i)
        THEN [db |-> db1, raised |-> TRUE]
        ELSE [db |-> [db1 EXCEPT !.measurements = @ (+) SeqToBag(rows)],
              raised |-> FALSE]

\* Variant: the DataFrames are tested for None only, not for .empty
store_data_none_only(db, measurements, stations, fault) ==
    LET db1 == IF stations.isNone THEN db ELSE to_sql_replace(db, stations.rows)
        a == IF measurements.isNone THEN [db |-> db1, raised |-> FALSE]
             ELSE to_sql_append(db1, measurements.rows)
    IN  [db |-> a.db, err |-> IF a.raised THEN "integrity" ELSE "none",
         attempted |-> (IF stations.isNone THEN <<>> ELSE <<"stations">>)
                       \o (IF measurements.isNone THEN <<>> ELSE <<"measurements">>),
         log |-> IF a.raised THEN {"error:storing"} ELSE {}]

\* Variant: each write has its own try block, a failed stations write does
\* not keep the measurements from being written
store_data_independent(db, measurements, stations, fault) ==
    LET write_stations == ~stations.isNone /\ ~empty(stations)
        write_measurements == ~measurements.isNone /\ ~empty(measurements)
        failed == write_stations /\ fault = "stations"
        db1 == IF write_stations /\ ~failed
               THEN to_sql_replace(db, stations.rows) ELSE db
        log1 == IF ~write_stations THEN {}
                ELSE IF failed THEN {"error:storing"}
                ELSE {"info:stored_stations"}
        a == IF write_measurements /\ fault # "measurements"
             THEN to_sql_append(db1, measurements.rows)
             ELSE [db |-> db1, raised |-> write_measurements]
    IN  IF fault = "connect"
        THEN [db |-> db, err |-> "connect", attempted |-> <<>>,
              log |-> {"error:storing"}]
        ELSE [db |-> a.db,
              err |-> IF failed THEN "stations"
                      ELSE IF ~a.raised THEN "none"
                      ELSE IF fault = "measurements" THEN "measurements"
                      ELSE "integrity",
              attempted |-> (IF write_stations THEN <<"stations">> ELSE <<>>)
                            \o (IF write_measurements THEN <<"measurements">>
                                ELSE <<>>),
              log |-> log1 \cup (IF ~write_measurements THEN {}
                                 ELSE IF a.raised THEN {"error:storing"}
                                 ELSE {"info:stored_measurements"})]

store_data(db, measurements, stations, fault) ==
    LET write_stations == ~stations.isNone /\ ~empty(stations)
        write_measurements == ~measurements.isNone /\ ~empty(measurements)
    IN  IF fault = "connect"
        THEN [db |-> db, err |-> "connect", attempted |-> <<>>,
              log |-> {"error:storing"}]
        ELSE IF write_stations /\ fault = "stations"
        THEN [db |-> db, err |-> "stations", attempted |-> <<"stations">>,
              log |-> {"error:storing"}]
        ELSE
        LET db1 == IF write_stations THEN to_sql_replace(db, stations.rows) ELSE db
            done == IF write_stations THEN <<"stations">> ELSE <<>>
            log1 == IF write_stations THEN {"info:stored_stations"} ELSE {}
        IN  IF ~write_measurements
            THEN [db |-> db1, err |-> "none", attempted |-> done, log |-> log1]
            ELSE IF fault = "measurements"
            THEN [db |-> db1, err |-> "measurements",
                  attempted |-> Append(done, "measurements"),
                  log |-> log1 \cup {"error:storing"}]
            ELSE
            LET a == to_sql_append(db1, measurements.rows)
            IN  [db |-> a.db,
                 err |-> IF a.raised THEN "integrity" ELSE "none",
                 attempted |-> Append(done, "measurements"),
                 log |-> log1 \cup (IF a.raised THEN {"error:storing"}
                                    ELSE {"info:stored_measurements"})]

----------------------------------------------------------------------------
(* run_collection_cycle *)

\* Variant: neither the fetched list nor the processed DataFrames are
\* tested before store_data is called
run_collection_cycle_unchecked(db, response, fault) ==
    LET f == fetch_weather_data(response)
        p == process_data(f.value)
        s == store_data(db, p.measurements, p.stations, fault)
    IN  [db |-> s.db, ret |-> TRUE, raised |-> FALSE, stage |-> "store",
         err |-> s.err, measurements |-> p.measurements, stations |-> p.stations,
         log |-> f.log \cup p.log \cup s.log \cup {"info:cycle_completed"}]

\* Variant: a failure of store_data is not caught on the way up
run_collection_cycle_propagating(db, response, fault) ==
    LET f == fetch_weather_data(response)
        p == process_data(f.value)
        s == store_data(db, p.measurements, p.stations, fault)
    IN  IF ~Truthy(f.value) \/ p.measurements.isNone \/ p.stations.isNone
        THEN [db |-> db, ret |-> FALSE, raised |-> FALSE, stage |-> "fetch",
              err |-> "none", measurements |-> NoneFrame, stations |-> NoneFrame,
              log |-> f.log \cup p.log]
        ELSE [db |-> s.db, ret |-> s.err = "none", raised |-> s.err # "none",
              stage |-> "store", err |-> s.err, measurements |-> p.measurements,
              stations |-> p.stations, log |-> f.log \cup p.log \cup s.log]

\* Variant: store_data reports its failure and the cycle returns it
run_collection_cycle_reporting(db, response, fault) ==
    LET f == fetch_weather_data(response)
        p == process_data(f.value)
        s == store_data(db, p.measurements, p.stations, fault)
    IN  IF ~Truthy(f.value) \/ p.measurements.isNone \/ p.stations.isNone
        THEN [db |-> db, ret |-> FALSE, raised |-> FALSE,
              stage |-> IF ~Truthy(f.value) THEN "fetch" ELSE "process",
              err |-> "none", measurements |-> NoneFrame, stations |-> NoneFrame,
              log |-> f.log \cup p.log]
        ELSE [db |-> s.db, ret |-> s.err = "none", raised |-> FALSE,
              stage |-> "store", err |-> s.err, measurements |-> p.measurements,
              stations |-> p.stations,
              log |-> f.log \cup p.log \cup s.log
                      \cup (IF s.err = "none" THEN {"info:cycle_completed"} ELSE {})]

\* raised: an exception leaves the method.  Every statement is inside
\* try/except Exception and the callees catch their own, so none does.
run_collection_cycle(db, response, fault) ==
    LET f == fetch_weather_data(response)
    IN  IF ~Truthy(f.value)
        THEN [db |-> db, ret |-> FALSE, raised |-> FALSE, stage |-> "fetch",
              err |-> "none", measurements |-> NoneFrame,
              stations |-> NoneFrame,
              log |-> f.log \cup {"warning:no_data"}]
        ELSE
        LET p == process_data(f.value)
        IN  IF p.measurements.isNone \/ p.stations.isNone
            THEN [db |-> db, ret |-> FALSE, raised |-> FALSE, stage |-> "process",
                  err |-> "none", measurements |-> NoneFrame,
                  stations |-> NoneFrame,
                  log |-> f.log \cup p.log \cup {"warning:processing_failed"}]
            ELSE
            LET s == store_data(db, p.measurements, p.stations, fault)
            IN  [db |-> s.db, ret |-> TRUE, raised |-> FALSE, stage |-> "store",
                 err |-> s.err, measurements |-> p.measurements,
                 stations |-> p.stations,
                 log |-> f.log \cup p.log \cup s.log \cup {"info:cycle_completed"}]

----------------------------------------------------------------------------
(* main() *)

interval_minutes == 20
interval_seconds == interval_minutes * 60

\* time.time() - start_time, in whole seconds
Elapsed == {45, 1200, 1201}

max(a, b) == IF a >= b THEN a ELSE b

\* Variant: no max(0, ...)
sleep_for_unclamped(elapsed) == interval_seconds - elapsed

\* sleep_time = max(0, interval_seconds - execution_time)
sleep_for(elapsed) == max(0, interval_seconds - elapsed)

\* a local variable of main() that is not bound yet
Unbound == "unbound"

VARIABLES
    pc,              \* where main() is: setup, loop, running, timing, sleeping, stopped
    db,              \* the database file
    success,         \* main(): success
    execution_time,  \* main(): execution_time
    sleep_time,      \* main(): sleep_time
    started,         \* cycles begun (start_time taken)
    completed,       \* run_collection_cycle calls that returned
    waits,           \* time.sleep calls that returned
    stop,            \* how main() ended
    last,            \* the last method call: what it was given and what it did
    good,            \* stations DataFrame of the last cycle that returned True
    calls            \* direct calls made by the harness

vars == <<pc, db, success, execution_time, sleep_time, started, completed,
          waits, stop, last, good, calls>>

sched == <<started, completed, waits>>
locals == <<success, execution_time, sleep_time>>

kind(df) == IF df.isNone THEN "None" ELSE IF empty(df) THEN "empty" ELSE "frame"

\* every row of the batch is in the table already, as it is
is_repeat(d, m) ==
    /\ kind(m) = "frame"
    /\ \A i \in DOMAIN m.rows : BagIn(m.rows[i], d.measurements)

\* the batch has a row whose derived key is in the table with other values
is_clash(d, m) ==
    /\ kind(m) = "frame"
    /\ \E i \in DOMAIN m.rows : \E r \in BagToSet(d.measurements) :
          r.measurementid = m.rows[i].measurementid /\ r # m.rows[i]

\* the table holds a station row that the batch does not
drops_station(d, s) ==
    /\ kind(s) = "frame"
    /\ \E r \in BagToSet(d.stations) : r \notin Range(s.rows)

\* what a cycle was answered with: the failure of the HTTP call, an empty
\* list, records that lack a whole column, or records with every column
answer(response) ==
    IF response.kind # "ok" THEN response.kind
    ELSE IF response.records = <<>> THEN "empty"
    ELSE IF \E c \in measurement_columns \cup station_columns :
               \A i \in DOMAIN response.records : response.records[i][c] = Missing
    THEN "incomplete"
    ELSE "records"

NoCall ==
    [op |-> "none", answer |-> "none", stage |-> "none", m |-> "None", s |-> "None",
     fault |-> "none", err |-> "none", ret |-> FALSE, repeat |-> FALSE,
     clash |-> FALSE, replaced |-> FALSE, log |-> {}]

Init ==
    /\ pc = "setup"
    /\ db = EmptyDatabase
    /\ success = Unbound
    /\ execution_time = Unbound
    /\ sleep_time = Unbound
    /\ started = 0
    /\ completed = 0
    /\ waits = 0
    /\ stop = "none"
    /\ last = NoCall
    /\ good = NoneFrame
    /\ calls = 0

\* collector.setup_database(), then the loop is entered
SetupDatabase ==
    /\ pc = "setup"
    /\ \E fault \in SetupFaults :
          LET r == setup_database(db, fault)
          IN  /\ db' = r.db
              /\ last' = [NoCall EXCEPT !.op = "setup", !.fault = fault,
                                        !.err = IF "error:setup" \in r.log
                                                THEN "setup" ELSE "none",
                                        !.log = r.log]
    /\ pc' = "loop"
    /\ UNCHANGED <<locals, sched, stop, good, calls>>

\* while True: start_time = time.time()
CycleStart ==
    /\ pc = "loop"
    /\ started < MaxCycles
    /\ pc' = "running"
    /\ started' = started + 1
    /\ UNCHANGED <<db, locals, completed, waits, stop, last, good, calls>>

\* success = collector.run_collection_cycle()
RunCollectionCycle ==
    /\ pc = "running"
    /\ \E response \in Responses, fault \in StoreFaults :
          LET r == run_collection_cycle(db, response, fault)
          IN  /\ db' = r.db
              /\ last' = [op |-> "cycle", answer |-> answer(response),
                          stage |-> r.stage,
                          m |-> kind(r.measurements), s |-> kind(r.stations),
                          fault |-> fault, err |-> r.err, ret |-> r.ret,
                          repeat |-> is_repeat(db, r.measurements),
                          clash |-> is_clash(db, r.measurements),
                          replaced |-> drops_station(db, r.stations),
                          log |-> r.log]
              /\ IF r.raised
                 THEN \* except Exception in main()
                      /\ pc' = "stopped"
                      /\ stop' = "cycle_error"
                      /\ UNCHANGED <<success, good, completed>>
                 ELSE /\ pc' = "timing"
                      /\ success' = r.ret
                      /\ good' = IF r.ret THEN r.stations ELSE good
                      /\ completed' = completed + 1
                      /\ stop' = stop
    /\ UNCHANGED <<execution_time, sleep_time, started, waits, calls>>

\* execution_time, sleep_time and the log line about the next collection
ComputeSleep ==
    /\ pc = "timing"
    /\ \E e \in Elapsed :
          /\ execution_time' = e
          /\ sleep_time' = sleep_for(e)
    /\ last' = [last EXCEPT !.log = @ \cup {IF success THEN "info:next_collection"
                                            ELSE "warning:collection_failed"}]
    /\ pc' = "sleeping"
    /\ UNCHANGED <<db, success, sched, stop, good, calls>>

\* Variant: the wait is made only after a cycle that succeeded
SleepOnlyAfterSuccess ==
    /\ pc = "sleeping"
    /\ pc' = "loop"
    /\ waits' = IF success THEN waits + 1 ELSE waits
    /\ UNCHANGED <<db, locals, started, completed, stop, last, good, calls>>

\* time.sleep(sleep_time) returns
Sleep ==
    /\ pc = "sleeping"
    /\ pc' = "loop"
    /\ waits' = waits + 1
    /\ UNCHANGED <<db, locals, started, completed, stop, last, good, calls>>

\* KeyboardInterrupt between two calls of the loop body or inside time.sleep
Interrupt ==
    /\ pc \in {"loop", "timing", "sleeping"}
    /\ pc' = "stopped"
    /\ stop' = "interrupt"
    /\ last' = [last EXCEPT !.log = @ \cup {"info:stopped_by_user"}]
    /\ UNCHANGED <<db, locals, sched, good, calls>>

\* where inside run_collection_cycle a KeyboardInterrupt can arrive, by what
\* has been committed to the file at that point
InterruptPoints ==
    {"fetch", "process", "connect", "stations_dropped", "stations_created",
     "measurements"}

interrupted_store(d, stations, point) ==
    CASE point = "stations_dropped" ->
            [d EXCEPT !.schema = @ \ stations_objects, !.stations = EmptyBag]
      [] point = "stations_created" ->
            [d EXCEPT !.schema = (@ \ stations_objects) \cup {"stations"},
                      !.stations = EmptyBag]
      [] point = "measurements" -> to_sql_replace(d, stations.rows)
      [] OTHER -> d

\* Variant: the except clauses of the methods are bare, the interrupt is
\* caught like any failure of the step and the loop goes on
InterruptCycleSwallowed ==
    /\ pc = "running"
    /\ \E point \in InterruptPoints :
          \/ /\ point \in {"fetch", "process", "connect"}
             /\ db' = db
          \/ /\ point \in {"stations_dropped", "stations_created", "measurements"}
             /\ \E s \in StationFrames :
                   db' = interrupted_store(db, s, point)
    /\ pc' = "timing"
    /\ success' = FALSE
    /\ completed' = completed + 1
    /\ last' = [NoCall EXCEPT !.op = "cycle", !.stage = "interrupted",
                              !.log = {"error:unexpected"}]
    /\ UNCHANGED <<execution_time, sleep_time, started, waits, stop, good, calls>>

\* KeyboardInterrupt is no Exception: no except clause below main() catches
\* it, an open INSERT transaction is never committed
InterruptCycle ==
    /\ pc = "running"
    /\ \E point \in InterruptPoints :
          \/ /\ point \in {"fetch", "process", "connect"}
             /\ db' = db
          \/ /\ point \in {"stations_dropped", "stations_created", "measurements"}
             /\ \E s \in StationFrames :
                   db' = interrupted_store(db, s, point)
    /\ pc' = "stopped"
    /\ stop' = "interrupt"
    /\ last' = [NoCall EXCEPT !.op = "cycle", !.stage = "interrupted",
                              !.log = {"info:stopped_by_user"}]
    /\ UNCHANGED <<locals, sched, good, calls>>

\* KeyboardInterrupt before the try block: a traceback, no log line
InterruptSetup ==
    /\ pc = "setup"
    /\ pc' = "stopped"
    /\ stop' = "traceback"
    /\ UNCHANGED <<db, locals, sched, last, good, calls>>

\* an exception out of the loop body itself (time.time, logging, time.sleep)
OuterError ==
    /\ pc \in {"timing", "sleeping"}
    /\ pc' = "stopped"
    /\ stop' = "error"
    /\ last' = [last EXCEPT !.log = @ \cup {"error:main_loop"}]
    /\ UNCHANGED <<db, locals, sched, good, calls>>

Next ==
    \/ SetupDatabase
    \/ CycleStart
    \/ RunCollectionCycle
    \/ ComputeSleep
    \/ Sleep
    \/ Interrupt
    \/ InterruptCycle
    \/ InterruptSetup
    \/ OuterError

Spec == Init /\ [][Next]_vars

----------------------------------------------------------------------------
(* The methods of BuienradarClient called one at a time, in any order, on a
   database file nothing else writes to *)

InitHarness ==
    /\ pc = "harness"
    /\ db = EmptyDatabase
    /\ success = Unbound
    /\ execution_time = Unbound
    /\ sleep_time = Unbound
    /\ started = 0
    /\ completed = 0
    /\ waits = 0
    /\ stop = "none"
    /\ last = NoCall
    /\ good = NoneFrame
    /\ calls = 0

\* what store_data can be handed for either argument
MeasurementArgs == MeasurementFrames \cup {NoneFrame, Frame(<<>>)}
StationArgs == StationFrames \cup {NoneFrame, Frame(<<>>)}

\* client.setup_database()
CallSetupDatabase ==
    /\ pc = "harness"
    /\ calls < MaxCalls
    /\ LET r == setup_database(db, "none")
       IN  /\ db' = r.db
           /\ last' = [NoCall EXCEPT !.op = "setup",
                                     !.err = IF "error:setup" \in r.log
                                             THEN "setup" ELSE "none",
                                     !.log = r.log]
    /\ calls' = calls + 1
    /\ UNCHANGED <<pc, locals, sched, stop, good>>

\* the state after client.store_data(m, s), and what the call did
stored(op, d, m, s) ==
    LET r == store_data(d, m, s, "none")
    IN  [db |-> r.db,
         last |-> [op |-> op, answer |-> "none", stage |-> "store",
                   m |-> kind(m), s |-> kind(s),
                   fault |-> "none", err |-> r.err, ret |-> FALSE,
                   repeat |-> is_repeat(d, m), clash |-> is_clash(d, m),
                   replaced |-> drops_station(d, s),
                   log |-> r.log]]

\* m, s = client.process_data(raw); client.store_data(m, s)
CallProcessStore ==
    /\ pc = "harness"
    /\ calls < MaxCalls
    /\ \E raw_data \in {NoneFrame} \cup {Frame(raw) : raw \in RawInputs} :
          LET p == process_data(raw_data)
              r == stored("ingest", db, p.measurements, p.stations)
          IN  /\ db' = r.db
              /\ last' = [r.last EXCEPT !.log = @ \cup p.log]
    /\ calls' = calls + 1
    /\ UNCHANGED <<pc, locals, sched, stop, good>>

\* client.store_data(m, s) with one DataFrame, the other argument None or
\* empty (CallProcessStore passes two DataFrames)
CallStoreData ==
    /\ pc = "harness"
    /\ calls < MaxCalls
    /\ \E m \in MeasurementArgs, s \in StationArgs :
          /\ kind(m) # "frame" \/ kind(s) # "frame"
          /\ LET r == stored("store", db, m, s)
             IN  /\ db' = r.db
                 /\ last' = r.last
    /\ calls' = calls + 1
    /\ UNCHANGED <<pc, locals, sched, stop, good>>

NextHarness ==
    \/ CallSetupDatabase
    \/ CallProcessStore
    \/ CallStoreData

SpecHarness == InitHarness /\ [][NextHarness]_vars

----------------------------------------------------------------------------
(* Properties *)

\* setup_database has built the schema of this file, unique index included
SchemaReady == "uq_measurements_stationid_timestamp" \in db.schema

\* C1: on a store whose schema setup_database has built, process_data +
\* store_data on the same raw records twice leaves the measurements table
\* with the same rows, hence the same row count, as doing it once.
IdempotentIngestion ==
    SchemaReady =>
        \A raw \in RawInputs :
            LET p == process_data(Frame(raw))
                once == store_data(db, p.measurements, p.stations, "none").db
                twice == store_data(once, p.measurements, p.stations, "none").db
            IN  /\ twice.measurements = once.measurements
                /\ BagCardinality(twice.measurements)
                       = BagCardinality(once.measurements)

\* a second ingestion of records already stored has just been made
IdempotentIngestionWitness ==
    /\ SchemaReady
    /\ last.op = "ingest"
    /\ last.m = "frame"
    /\ last.repeat
    /\ BagCardinality(db.measurements) > 0

\* the rows of the batch whose derived key is in the table, and the others
colliding(d, rows) ==
    {i \in DOMAIN rows :
        \E r \in BagToSet(d.measurements) : r.measurementid = rows[i].measurementid}
fresh(d, rows) == DOMAIN rows \ colliding(d, rows)

\* no two rows of the batch share a derived key
distinct_keys(rows) ==
    \A i, j \in DOMAIN rows :
        rows[i].measurementid = rows[j].measurementid => i = j

\* C2: a batch of which some rows have a derived key that is in the store
\* and the others are new is stored without an error: the colliding rows
\* are skipped, every new row is added.
AppendWithDedup ==
    SchemaReady =>
        \A m \in MeasurementFrames, s \in StationArgs :
            (/\ distinct_keys(m.rows)
             /\ colliding(db, m.rows) # {}
             /\ fresh(db, m.rows) # {})
            => LET r == store_data(db, m, s, "none")
               IN  /\ r.err = "none"
                   /\ "error:storing" \notin r.log
                   /\ \A i \in fresh(db, m.rows) :
                         BagIn(m.rows[i], r.db.measurements)
                   /\ BagCardinality(r.db.measurements)
                         = BagCardinality(db.measurements)
                           + Cardinality(fresh(db, m.rows))

\* C4: store_data with a non-empty stations DataFrame leaves the stations
\* table with exactly its rows, whatever the table held before (the rows of
\* an earlier call included) and whatever the measurements argument is.
StationsFullSnapshot ==
    \A s \in StationFrames, m \in MeasurementArgs :
        store_data(db, m, s, "none").db.stations = SeqToBag(s.rows)

\* a call has replaced a stations table that held a row the call's
\* DataFrame does not have
StationsFullSnapshotWitness ==
    /\ last.op \in {"store", "ingest"}
    /\ last.s = "frame"
    /\ last.replaced
    /\ last.err = "none"
    /\ BagCardinality(db.stations) > 0

\* C3: a step of the program removes no row from the measurements table
\* and changes none, so the row count never decreases.
MeasurementsAppendOnly ==
    [][/\ \A r \in BagToSet(db.measurements) :
             CopiesIn(r, db'.measurements) >= CopiesIn(r, db.measurements)
       /\ BagCardinality(db'.measurements) >= BagCardinality(db.measurements)]_vars

\* the second cycle brought other values for a stored derived key
MeasurementsAppendOnlyWitness ==
    /\ pc = "timing"
    /\ completed = 2
    /\ last.op = "cycle"
    /\ last.clash
    /\ BagCardinality(db.measurements) > 0

\* C5: between cycles the stations table is exactly the stations DataFrame
\* of the most recent cycle for which run_collection_cycle returned True
\* (as setup left it while there was none).
StationsAreLastSuccessfulCycle ==
    pc \in {"loop", "timing", "sleeping"} =>
        db.stations = (IF good.isNone THEN EmptyBag ELSE SeqToBag(good.rows))

storing_log == {"info:stored_stations", "info:stored_measurements", "error:storing"}

\* C6: a cycle answered with no data (failed HTTP call, bad status,
\* malformed or mis-shaped body, empty list) or with records process_data
\* turns into (None, None) leaves the database as it was, does not call
\* store_data and returns False.
FailedCycleLeavesStore ==
    [][(pc = "running" /\ last'.op = "cycle" /\ last'.stage # "interrupted"
        /\ last'.answer # "records")
       => /\ db' = db
          /\ pc' = "timing"
          /\ success' = FALSE
          /\ last'.log \cap storing_log = {}
          /\ last'.err = "none"]_vars

\* a cycle answered with records that lack a column has run on a store
\* that holds rows, with a storage fault waiting
FailedCycleLeavesStoreWitness ==
    /\ pc = "timing"
    /\ last.op = "cycle"
    /\ last.answer = "incomplete"
    /\ last.fault = "connect"
    /\ success = FALSE
    /\ BagCardinality(db.measurements) > 0

\* C7: process_data on None or on an empty list returns (None, None);
\* store_data with None or empty DataFrames writes nothing and logs no error.
EmptyInputIsNoOp ==
    /\ \A raw_data \in {NoneFrame, Frame(<<>>)} :
          /\ process_data(raw_data).measurements.isNone
          /\ process_data(raw_data).stations.isNone
    /\ \A m \in {NoneFrame, Frame(<<>>)}, s \in {NoneFrame, Frame(<<>>)} :
          LET r == store_data(db, m, s, "none")
          IN  /\ r.db = db
              /\ r.attempted = <<>>
              /\ r.err = "none"
              /\ "error:storing" \notin r.log

\* store_data has been called with nothing to write on tables that hold rows
EmptyInputIsNoOpWitness ==
    /\ last.op = "store"
    /\ last.m \in {"None", "empty"}
    /\ last.s \in {"None", "empty"}
    /\ BagCardinality(db.measurements) > 0
    /\ BagCardinality(db.stations) > 0

\* C8: the wait after a cycle is max(0, 1200 - execution_time): never
\* negative, 0 from 1200 seconds on, 1155 after 45 seconds, whether the
\* cycle succeeded or not.
CycleTiming ==
    pc = "sleeping" =>
        /\ sleep_time >= 0
        /\ execution_time >= 1200 => sleep_time = 0
        /\ execution_time < 1200 => sleep_time = 1200 - execution_time
        /\ execution_time = 45 => sleep_time = 1155

\* a failed cycle that took 45 seconds is followed by a wait of 1155
CycleTimingWitness ==
    /\ pc = "sleeping"
    /\ success = FALSE
    /\ execution_time = 45
    /\ sleep_time = 1155

\* C9: cycles and waits alternate, beginning with a cycle: at most one
\* cycle is running, it has been preceded by as many waits as cycles have
\* completed, and a completed cycle is followed by one wait before the next.
SchedulerAlternates ==
    /\ started - completed \in {0, 1}
    /\ pc = "setup" => started = 0 /\ waits = 0
    /\ pc = "running" => started = completed + 1 /\ waits = completed
    /\ pc \in {"timing", "sleeping"} => started = completed /\ waits = completed - 1
    /\ pc = "loop" => started = completed /\ waits = completed
    /\ pc = "stopped" => waits \in {completed - 1, completed}

\* the second cycle is running, after one completed cycle and one wait
SchedulerAlternatesWitness ==
    /\ pc = "running"
    /\ started = 2
    /\ completed = 1
    /\ waits = 1

\* C10: whatever fails inside a cycle, run_collection_cycle returns and
\* main() goes on to compute the wait, to sleep and to the next cycle; the
\* loop is left only by a KeyboardInterrupt or an exception of the loop body.
NoBadCycleStopsProcess ==
    [][/\ pc = "running" =>
             \/ pc' = "timing" /\ stop' = "none"
             \/ pc' = "stopped" /\ stop' = "interrupt"
       /\ pc = "timing" =>
             \/ pc' = "sleeping" /\ stop' = "none"
             \/ pc' = "stopped" /\ stop' \in {"interrupt", "error"}
       /\ pc = "sleeping" =>
             \/ pc' = "loop" /\ stop' = "none"
             \/ pc' = "stopped" /\ stop' \in {"interrupt", "error"}
       /\ pc = "loop" =>
             \/ pc' = "running" /\ stop' = "none"
             \/ pc' = "stopped" /\ stop' = "interrupt"]_vars

\* the next cycle is running after a cycle in which the storage failed
NoBadCycleStopsProcessWitness ==
    /\ pc = "running"
    /\ started = 2
    /\ last.op = "cycle"
    /\ last.err \in {"connect", "stations", "measurements", "integrity"}

\* C11: a KeyboardInterrupt delivered while the loop waits or while a step
\* of a cycle (fetch, normalize, persist) is in flight ends the loop: main()
\* is stopped by the interrupt with the shutdown message logged, and from
\* then on no cycle is started and nothing is written.
CleanTerminationOnInterrupt ==
    [][/\ (stop' = "interrupt" \/ last'.stage = "interrupted")
          => /\ pc' = "stopped"
             /\ stop' = "interrupt"
             /\ "info:stopped_by_user" \in last'.log
             /\ "error:main_loop" \notin last'.log \ last.log
       /\ pc = "stopped" => (pc' = "stopped" /\ started' = started /\ db' = db)
      ]_vars

\* the interrupt arrived while the second cycle was replacing the stations
\* (the table is dropped and not yet refilled) after a cycle and a wait
CleanTerminationOnInterruptWitness ==
    /\ pc = "stopped"
    /\ stop = "interrupt"
    /\ last.stage = "interrupted"
    /\ "info:stopped_by_user" \in last.log
    /\ started = 2 /\ completed = 1 /\ waits = 1
    /\ "stations" \notin db.schema
    /\ "measurements" \in db.schema

\* a required field that some record of the list lacks
lacks_field(raw) ==
    \E i \in DOMAIN raw : \E c \in measurement_columns \cup station_columns :
        raw[i][c] = Missing

\* a required field that every record of the list lacks
lacks_column(raw) ==
    \E c \in measurement_columns \cup station_columns :
        \A i \in DOMAIN raw : raw[i][c] = Missing

\* C12 as stated: a list of which any single record lacks any required
\* field makes process_data return (None, None), and storing that result
\* writes nothing.
IncompleteRecordSkipsCycle ==
    \A raw \in RawInputs :
        (raw # <<>> /\ lacks_field(raw))
        => LET p == process_data(Frame(raw))
           IN  /\ p.measurements.isNone
               /\ p.stations.isNone
               /\ store_data(db, p.measurements, p.stations, "none").db = db

\* C12, amended: process_data returns (None, None), and nothing is written,
\* when a required field is missing from every record of the list; when only
\* some records lack it, process_data returns both DataFrames, with a row for
\* every distinct record and NaN in the cells the record has no value for.
IncompleteColumnSkipsCycle ==
    \A raw \in RawInputs :
        raw # <<>>
        => LET p == process_data(Frame(raw))
           IN  IF lacks_column(raw)
               THEN /\ p.measurements.isNone
                    /\ p.stations.isNone
                    /\ "error:processing" \in p.log
                    /\ store_data(db, p.measurements, p.stations, "none").db = db
               ELSE /\ kind(p.measurements) = "frame"
                    /\ kind(p.stations) = "frame"
                    /\ \A i \in DOMAIN raw :
                          \E j \in DOMAIN p.measurements.rows :
                             LET row == p.measurements.rows[j]
                             IN  /\ row.stationid = raw[i].stationid
                                 /\ row.timestamp = raw[i].timestamp
                                 /\ row.temperature =
                                       IF raw[i].temperature = Missing
                                       THEN NaN ELSE raw[i].temperature

\* a list of two records of which one had no temperature has been processed
\* and stored: both rows are in the table, one with NaN
IncompleteColumnSkipsCycleWitness ==
    /\ last.op = "ingest"
    /\ last.err = "none"
    /\ \E r, q \in BagToSet(db.measurements) :
          /\ r.temperature = NaN
          /\ q.temperature # NaN
          /\ r.measurementid # q.measurementid

\* the rows of every DataFrame process_data can return, and of the table
keyed_rows ==
    BagToSet(db.measurements)
    \cup UNION {Range(m.rows) : m \in MeasurementFrames}

\* C13 as stated: rows with the same stationid and timestamp have the same
\* measurementid, and rows that differ in stationid or in timestamp have
\* different measurementids.
DerivedKeyInjective ==
    \A r, q \in keyed_rows :
        (r.stationid = q.stationid /\ r.timestamp = q.timestamp)
        <=> r.measurementid = q.measurementid

\* C13, amended: rows with the same stationid and timestamp have the same
\* measurementid, and rows that differ in exactly one of stationid and
\* timestamp have different measurementids; rows that differ in both can
\* have the same one (stationid A_1 at 2 and stationid A at 1_2).
DerivedKeyDeterminism ==
    \A r, q \in keyed_rows :
        /\ (r.stationid = q.stationid /\ r.timestamp = q.timestamp)
           => r.measurementid = q.measurementid
        /\ (r.stationid = q.stationid /\ r.timestamp # q.timestamp)
           => r.measurementid # q.measurementid
        /\ (r.stationid # q.stationid /\ r.timestamp = q.timestamp)
           => r.measurementid # q.measurementid

\* the table holds two observations of one station under two keys, and two
\* readings of one observation under one key
DerivedKeyDeterminismWitness ==
    \E r, q, t \in BagToSet(db.measurements) :
        /\ r.stationid = q.stationid /\ r.timestamp # q.timestamp
        /\ r.measurementid # q.measurementid
        /\ t.stationid = r.stationid /\ t.timestamp = r.timestamp /\ t # r
        /\ t.measurementid = r.measurementid

\* C14: once main() is past setup_database, whether it succeeded or failed
\* silently, and after any number of cycles, no two rows of the measurements
\* table have the same (stationid, timestamp) and no two have the same
\* measurementid.
StoreUniqueness ==
    pc # "setup"
    => \A r \in BagToSet(db.measurements) :
          /\ CopiesIn(r, db.measurements) = 1
          /\ \A q \in BagToSet(db.measurements) :
                \/ q = r
                \/ /\ q.measurementid # r.measurementid
                   /\ ~(q.stationid = r.stationid /\ q.timestamp = r.timestamp)

\* most calls of setup_database in a row that are compared with one call
MaxSetups == 3

\* setup_database called n times in a row, no fault: the database file
\* after the last call and the log lines of all the calls
RECURSIVE setup_times(_, _)
setup_times(d, n) ==
    IF n = 0 THEN [db |-> d, log |-> {}]
    ELSE LET before == setup_times(d, n - 1)
             r == setup_database(before.db, "none")
         IN  [db |-> r.db, log |-> before.log \cup r.log]

\* the file is new, or its measurements table is the one setup_database made
fresh_or_set_up ==
    "measurements" \in db.schema => "measurements.pk" \in db.schema

one_row_per_station(df) ==
    \A i, j \in DOMAIN df.rows :
        df.rows[i].stationid = df.rows[j].stationid => i = j

\* C16: the stations DataFrame that process_data returned to a cycle has one
\* row per station: no two of its rows have the same stationid.
StationsOnePerStation ==
    kind(good) = "frame" => one_row_per_station(good)

\* C17: after setup_database and any number of store_data calls the stations
\* table still has its primary key on stationid, and no two of its rows
\* have the same stationid.
StationsKeepPrimaryKey ==
    (pc # "setup" /\ "stations" \in db.schema)
    => /\ "stations.pk" \in db.schema
       /\ \A r \in BagToSet(db.stations) :
             /\ CopiesIn(r, db.stations) = 1
             /\ \A q \in BagToSet(db.stations) :
                   q.stationid = r.stationid => q = r

\* C18: between cycles, the stationid of every row of the measurements table
\* is the stationid of a row of the stations table.
ReferentialIntegrity ==
    pc \in {"loop", "timing", "sleeping"}
    => \A r \in BagToSet(db.measurements) :
          \E q \in BagToSet(db.stations) : q.stationid = r.stationid

\* C19: run_collection_cycle returns True exactly when the fetch gave a
\* non-empty list and process_data gave both DataFrames; whether store_data
\* then wrote or failed does not change the value, and main() logs the
\* cycle by that value.
CycleReportsIgnoreStorage ==
    [][/\ (pc = "running" /\ pc' # "stopped")
          => /\ pc' = "timing"
             /\ success' = (last'.answer = "records")
             /\ success' = (last'.stage = "store")
             /\ success' <=> "info:cycle_completed" \in last'.log
       /\ (pc = "timing" /\ pc' = "sleeping")
          => /\ success' = success
             /\ success <=> "info:next_collection" \in last'.log
      ]_vars

\* a cycle whose store_data could not open the database wrote nothing,
\* returned True, and main() announced the next collection
CycleReportsIgnoreStorageWitness ==
    /\ pc = "sleeping"
    /\ success = TRUE
    /\ last.err = "connect"
    /\ "error:storing" \in last.log
    /\ "info:next_collection" \in last.log
    /\ db.measurements = EmptyBag

\* C20: inside one store_data call the stations are written before the
\* measurements and the second write depends on the first: when the
\* stations write fails the measurements write is not attempted (the
\* table is as it was); when the measurements write fails the stations table
\* stays replaced and the measurements table is as it was; measurements
\* are never stored without the stations having been stored.
StationsWriteGatesMeasurements ==
    [][(pc = "running" /\ last'.op = "cycle" /\ last'.stage = "store")
       => LET log == last'.log
          IN  /\ last'.err \in {"connect", "stations"}
                 => /\ db'.measurements = db.measurements
                    /\ "measurements" \in db'.schema => "measurements" \in db.schema
                    /\ "info:stored_stations" \notin log
                    /\ "info:stored_measurements" \notin log
                    /\ "error:storing" \in log
              /\ last'.err \in {"measurements", "integrity"}
                 => /\ db'.stations = SeqToBag(good'.rows)
                    /\ "stations" \in db'.schema
                    /\ db'.measurements = db.measurements
                    /\ "info:stored_stations" \in log
                    /\ "info:stored_measurements" \notin log
                    /\ "error:storing" \in log
              /\ last'.err = "none"
                 => /\ db'.stations = SeqToBag(good'.rows)
                    /\ BagCardinality(db'.measurements)
                          > BagCardinality(db.measurements)
                    /\ "info:stored_stations" \in log
                    /\ "info:stored_measurements" \in log
              /\ "info:stored_measurements" \in log
                 => "info:stored_stations" \in log
      ]_vars

\* the measurements write of a cycle failed after its stations write had
\* replaced other station rows: the new stations are in the file, the
\* measurements are those of the cycle before
StationsWriteGatesMeasurementsWitness ==
    /\ pc = "timing"
    /\ last.err = "measurements"
    /\ last.replaced
    /\ kind(good) = "frame"
    /\ db.stations = SeqToBag(good.rows)
    /\ db.measurements # EmptyBag
    /\ "info:stored_stations" \in last.log
    /\ "info:stored_measurements" \notin last.log

====
